---- MODULE Spec2Model ----
(***************************************************************************)
(* mylocation-app: the screen-level controller LocationApp (web-map        *)
(* variant) and the InternetConnectionCheck connectivity monitor, as a     *)
(* state machine.  Every await of the source is a suspension point: the    *)
(* part of a handler before it and each continuation after it is one       *)
(* action.  The platform (NetInfo, fetch, timers, expo-location) is the    *)
(* environment: it answers with any value its type allows.                 *)
(***************************************************************************)
EXTENDS Integers, FiniteSets, Sequences, TLC

\* ---------------------------------------------------------------- bounds
MaxChecks == 3      \* checkConnection invocations over a run
MaxTime == 2        \* readings of the wall clock
MaxPos == 2         \* distinct positions the provider reports
MaxSubs == 2        \* subscriptions watchPositionAsync creates over a run
MaxStarts == 2      \* startLocationTracking invocations suspended at once
MaxFetch == 2       \* checkInternetConnection invocations suspended at once

\* -------------------------------------------------------------- constants
Unknown == "unknown"             \* useState<boolean | null>(null)
Connected == "connected"         \* isConnected === true
Disconnected == "disconnected"   \* isConnected === false
ConnectivityStatus == {Unknown, Connected, Disconnected}

NoDate == 0                      \* lastChecked === null

\* what the stage-2 probe can end with before the abort timer fires
ProbeOutcomes == {"ok", "notok", "neterror"}

VARIABLES
    \* LocationApp (screen-level controller)
    loading,        \* useState(true)
    errorMsg,       \* useState(null): "none" | "permission" | "fetch"
    location,       \* useState(null): 0 = null, else a position
    mapError,       \* useState(false)
    loadPc,         \* where the initial load / a refresh is suspended
    screenOn,       \* LocationApp is mounted
    isConnected,    \* useState(null)
    trackingActive, \* useState(false)
    watchId,        \* useState(null): 0 = null, else a subscription
    effConn,        \* isConnected in the closure of the subscribed listener
    effWatch,       \* watchId in the closure of the effect's cleanup
    connFetches,    \* checkInternetConnection calls awaiting NetInfo.fetch()
    starts,         \* startLocationTracking calls: slot -> [pc, cap]
    subs,           \* the location subscriptions not removed
    nextSub,        \* the next subscription watchPositionAsync creates
    sLast,          \* the alert of the last step, isConnected before it
    \* InternetConnectionCheck (the instance currently or last mounted)
    inst,           \* number of the instance (0: none was mounted yet)
    monMounted,     \* the instance is mounted
    mIsConnected,   \* its isConnected
    mIsChecking,    \* its isChecking
    mLastChecked,   \* its lastChecked
    intervalOn,     \* intervalId is a running interval
    listenerOn,     \* the NetInfo listener is subscribed
    checks,         \* the checkConnection invocations: id -> [pc, inst]
    timers,         \* ids of the checks whose abort timer is pending
    nextId,         \* id of the next checkConnection invocation
    \* environment
    net,            \* the interface is active (NetInfoState.isConnected)
    now,            \* the wall clock (new Date())
    \* observation of the last step
    mLast,          \* what the last step did to the monitor
    authStamp,      \* start order of the newest-started writer of the status
    authVal         \* the status that writer wrote

ctrlVars == <<loading, errorMsg, location, mapError, loadPc, screenOn>>
connVars == <<isConnected, effConn, effWatch, connFetches>>
trackVars == <<trackingActive, watchId, starts, subs, nextSub>>
scrVars == <<connVars, trackVars, sLast>>
monVars == <<inst, monMounted, mIsConnected, mIsChecking, mLastChecked,
             intervalOn, listenerOn, checks, timers, nextId, mLast,
             authStamp, authVal>>
envVars == <<net, now>>
vars == <<ctrlVars, scrVars, monVars, envVars>>

CheckIds == 1..MaxChecks

FromBool(b) == IF b THEN Connected ELSE Disconnected

\* a step that is no step of the monitor
NoStep == [kind |-> "none", id |-> 0, live |-> TRUE, setTo |-> Unknown,
           wrote |-> {}, outcome |-> "none", report |-> "none"]

IdleCheck == [pc |-> "idle", inst |-> 0]

\* the instance a check belongs to is the mounted one
IsLive(id) == monMounted /\ checks[id].inst = inst

\* ------------------------------------------------ the monitor's setters

AllFields == {"status", "stamp", "checking"}

\* lines 31-35 (and the finally of 61-64, which a return inside try runs):
\* setIsConnected(false), setLastChecked(new Date()), setIsChecking(false)
EarlyExitWrites == [fields |-> AllFields, status |-> Disconnected]

\* any response taken for success: setIsConnected(true)
ResultWrites_AnyResponse(o) == [fields |-> AllFields, status |-> Connected]

\* line 56 and the finally: setIsConnected(response.ok), setLastChecked,
\* setIsChecking(false)
ResultWrites(o) == [fields |-> AllFields, status |-> FromBool(o = "ok")]

\* the catch resetting the status: setIsConnected(null)
CatchWrites_Reset == [fields |-> AllFields, status |-> Unknown]

\* lines 57-64: the catch sets false, the finally the rest
CatchWrites == [fields |-> AllFields, status |-> Disconnected]

\* the listener without its setLastChecked(new Date())
EventWrites_NoStamp == [fields |-> {"status"}, status |-> Disconnected]

\* lines 77-79: the listener sets false and the timestamp, not isChecking
EventWrites == [fields |-> {"status", "stamp"}, status |-> Disconnected]

\* The setters called with w, by a continuation of an instance that is
\* mounted (live) or not.  The source calls them either way; a call on an
\* unmounted instance changes no state of the mounted one.
\* Start order: check k is 2k, a listener call made when the next check
\* would be k is 2k-1 (after every check started before it).
CheckStamp(id) == 2 * id
EventStamp == 2 * nextId - 1

Commit(live, w, stamp) ==
    /\ mIsConnected' = IF live /\ "status" \in w.fields
                         THEN w.status ELSE mIsConnected
    /\ IF live /\ "status" \in w.fields /\ stamp >= authStamp
         THEN authStamp' = stamp /\ authVal' = w.status
         ELSE UNCHANGED <<authStamp, authVal>>
    /\ mLastChecked' = IF live /\ "stamp" \in w.fields
                         THEN now ELSE mLastChecked
    /\ mIsChecking' = IF live /\ "checking" \in w.fields
                         THEN FALSE ELSE mIsChecking

\* what the step did: the handler, the check, whether its instance is
\* mounted, the setters it called, the probe's outcome, the interface state
\* it was given
Observe(kind, id, live, w, o, rep) ==
    mLast' = [kind |-> kind, id |-> id, live |-> live, setTo |-> w.status,
              wrote |-> w.fields, outcome |-> o, report |-> rep]

\* the test dropped: an inactive interface falls through to the probe
InterfaceInactive_Never(state) == FALSE

\* lines 31 and 77: !netInfoState.isConnected, !state.isConnected
InterfaceInactive(state) == ~state

Report(state) == IF state THEN "active" ELSE "inactive"

NoWrites == [fields |-> {}, status |-> Unknown]

\* --------------------------------------------------- checkConnection

\* lines 24-28: setIsChecking(true), then the await of NetInfo.fetch()
BeginCheck(kind, rep) ==
    /\ nextId <= MaxChecks
    /\ checks' = [checks EXCEPT ![nextId] = [pc |-> "netinfo", inst |-> inst]]
    /\ nextId' = nextId + 1
    /\ mIsChecking' = TRUE
    /\ Observe(kind, nextId, TRUE, [fields |-> {"checking"}, status |-> Unknown],
               "none", rep)

\* line 72: the interval fires
TimerCheck ==
    /\ intervalOn
    /\ BeginCheck("timer", "none")
    /\ UNCHANGED <<ctrlVars, scrVars, envVars, inst, monMounted, mIsConnected,
                   mLastChecked, intervalOn, listenerOn, timers, authStamp,
                   authVal>>

\* lines 124-127: the button, disabled while isChecking
ManualCheck ==
    /\ monMounted
    /\ ~mIsChecking
    /\ BeginCheck("manual", "none")
    /\ UNCHANGED <<ctrlVars, scrVars, envVars, inst, monMounted, mIsConnected,
                   mLastChecked, intervalOn, listenerOn, timers, authStamp,
                   authVal>>

\* lines 75-84: the NetInfo listener, called with the interface's state
NetInfoEvent ==
    /\ listenerOn
    /\ IF InterfaceInactive(net)
         THEN /\ Commit(TRUE, EventWrites, EventStamp)
              /\ Observe("inactiveEvent", 0, TRUE, EventWrites, "none", Report(net))
              /\ UNCHANGED <<checks, nextId>>
         ELSE /\ BeginCheck("event", Report(net))
              /\ UNCHANGED <<mIsConnected, mLastChecked, authStamp, authVal>>
    /\ UNCHANGED <<ctrlVars, scrVars, envVars, inst, monMounted, intervalOn,
                   listenerOn, timers>>

\* lines 28-41: NetInfo.fetch() resolved with the interface's state: the
\* early exit, or the abort timer is armed and the probe issued
CheckNetInfo(id) ==
    /\ checks[id].pc = "netinfo"
    /\ IF InterfaceInactive(net)
         THEN /\ Commit(IsLive(id), EarlyExitWrites, CheckStamp(id))
              /\ Observe("inactiveQuery", id, IsLive(id), EarlyExitWrites, "none",
                         Report(net))
              /\ checks' = [checks EXCEPT ![id].pc = "done"]
              /\ UNCHANGED timers
         ELSE /\ timers' = timers \cup {id}
              /\ checks' = [checks EXCEPT ![id].pc = "probe"]
              /\ Observe("probeIssued", id, IsLive(id), NoWrites, "none", Report(net))
              /\ UNCHANGED <<mIsConnected, mLastChecked, mIsChecking,
                             authStamp, authVal>>
    /\ UNCHANGED <<ctrlVars, scrVars, envVars, inst, monMounted, intervalOn,
                   listenerOn, nextId>>

\* lines 44-64: the fetch settled before the abort timer fired.  A response
\* (ok or not) passes clearTimeout; a rejection goes to the catch, past it.
CheckProbe(id, o) ==
    /\ checks[id].pc = "probe"
    /\ IF o \in {"ok", "notok"}
         THEN /\ timers' = timers \ {id}
              /\ Commit(IsLive(id), ResultWrites(o), CheckStamp(id))
              /\ Observe("probeDone", id, IsLive(id), ResultWrites(o), o, "none")
         ELSE /\ UNCHANGED timers
              /\ Commit(IsLive(id), CatchWrites, CheckStamp(id))
              /\ Observe("probeDone", id, IsLive(id), CatchWrites, o, "none")
    /\ checks' = [checks EXCEPT ![id].pc = "done"]
    /\ UNCHANGED <<ctrlVars, scrVars, envVars, inst, monMounted, intervalOn,
                   listenerOn, nextId>>

\* the timer firing without aborting the controller: the fetch stays
\* pending
AbortTimer_NoAbort(id) ==
    /\ id \in timers
    /\ timers' = timers \ {id}
    /\ Observe("abortNoop", id, IsLive(id), NoWrites, "none", "none")
    /\ UNCHANGED <<mIsConnected, mLastChecked, mIsChecking, checks,
                   authStamp, authVal>>
    /\ UNCHANGED <<ctrlVars, scrVars, envVars, inst, monMounted, intervalOn,
                   listenerOn, nextId>>

\* line 41: the 5 s timer fires and aborts the controller; a fetch still
\* pending rejects into the catch, a settled one is not affected
AbortTimer(id) ==
    /\ id \in timers
    /\ timers' = timers \ {id}
    /\ IF checks[id].pc = "probe"
         THEN /\ Commit(IsLive(id), CatchWrites, CheckStamp(id))
              /\ Observe("probeDone", id, IsLive(id), CatchWrites, "timeout", "none")
              /\ checks' = [checks EXCEPT ![id].pc = "done"]
         ELSE /\ Observe("abortNoop", id, IsLive(id), NoWrites, "none", "none")
              /\ UNCHANGED <<mIsConnected, mLastChecked, mIsChecking, checks,
                             authStamp, authVal>>
    /\ UNCHANGED <<ctrlVars, scrVars, envVars, inst, monMounted, intervalOn,
                   listenerOn, nextId>>

\* ------------------------------------------- mounting and unmounting

\* lines 19-21 and 68-84: a new instance, its effect run: checkConnection(),
\* setInterval, NetInfo.addEventListener
MountMonitor ==
    /\ inst' = inst + 1
    /\ monMounted' = TRUE
    /\ mIsConnected' = Unknown
    /\ mLastChecked' = NoDate
    /\ mIsChecking' = TRUE
    /\ checks' = [checks EXCEPT ![nextId] = [pc |-> "netinfo", inst |-> inst + 1]]
    /\ nextId' = nextId + 1
    /\ intervalOn' = TRUE
    /\ listenerOn' = TRUE
    /\ Observe("mount", nextId, TRUE, [fields |-> {"checking"}, status |-> Unknown],
               "none", "none")
    /\ authStamp' = 0
    /\ authVal' = Unknown
    /\ UNCHANGED timers

\* lines 87-90: clearInterval(intervalId); unsubscribe()
UnmountMonitor ==
    /\ monMounted' = FALSE
    /\ intervalOn' = FALSE
    /\ listenerOn' = FALSE
    /\ Observe("unmount", 0, FALSE, NoWrites, "none", "none")
    /\ UNCHANGED <<inst, mIsConnected, mIsChecking, mLastChecked, checks,
                   timers, nextId, authStamp, authVal>>

\* a step of the controller or the environment that calls nothing of the
\* monitor
MonitorIdle ==
    /\ mLast' = NoStep
    /\ UNCHANGED <<inst, monMounted, mIsConnected, mIsChecking, mLastChecked,
                   intervalOn, listenerOn, checks, timers, nextId, authStamp,
                   authVal>>

\* ------------------------------------------------------- LocationApp

Positions == 1..MaxPos
StartSlots == 1..MaxStarts

IdleStart == [pc |-> "idle", cap |-> 0]

\* the alerts of connectivity (lines 122, 137, 140)
ConnAlerts == {"noConnection", "restored", "lost"}

\* Alert.alert(a), or none: the alert of this step and isConnected before it
Emit(a) == sLast' = [alert |-> a, prevConn |-> isConnected, stop |-> FALSE]

\* the same at the end of a stopLocationTracking() call
EmitStop(a) == sLast' = [alert |-> a, prevConn |-> isConnected, stop |-> TRUE]

\* a state setter called with new: a call on the unmounted screen changes
\* nothing
Set(old, new) == IF screenOn THEN new ELSE old

\* the main view (src/app.json lines 291-317) is rendered, and with it the
\* InternetConnectionCheck element
MainView == screenOn /\ ~loading /\ errorMsg = "none"

\* the buttons of lines 367-387 are rendered
ButtonsShown == MainView /\ location # 0

\* the WebView of lines 343-352 is rendered with the document of getMapHTML
MapRendered == ButtonsShown /\ isConnected = Connected /\ ~mapError

\* location.coords of the position pos: sample coordinates, in whole
\* units, a positive latitude and a negative longitude that differ
Coords(pos) == [latitude |-> 12 * pos, longitude |-> 0 - (7 * pos)]

DigitChars == <<"0", "1", "2", "3", "4", "5", "6", "7", "8", "9">>

\* the decimal digits of a natural number, as characters
RECURSIVE Digits(_)
Digits(n) ==
    IF n < 10 THEN <<DigitChars[n + 1]>>
    ELSE Append(Digits(n \div 10), DigitChars[(n % 10) + 1])

\* `${n}` in the template literal of lines 265 and 271: Number to string
NumberToString(n) == IF n < 0 THEN <<"-">> \o Digits(0 - n) ELSE Digits(n)

DigitValue(c) == CHOOSE d \in 0..9 : DigitChars[d + 1] = c

RECURSIVE ParseDigits(_)
ParseDigits(str) ==
    IF str = <<>> THEN 0
    ELSE 10 * ParseDigits(SubSeq(str, 1, Len(str) - 1)) + DigitValue(str[Len(str)])

\* the numeric literal str of the generated script, as the WebView's
\* script engine reads it
ParseNumber(str) ==
    IF str # <<>> /\ str[1] = "-" THEN 0 - ParseDigits(Tail(str))
    ELSE ParseDigits(str)

\* line 271 with the coordinates in the other order
GetMapHTML_MarkerSwapped(loc) ==
    IF loc = 0 THEN [empty |-> TRUE]
    ELSE LET latitude == Coords(loc).latitude
             longitude == Coords(loc).longitude
         IN [empty |-> FALSE,
             setView |-> <<NumberToString(latitude), NumberToString(longitude)>>,
             zoom |-> 15,
             marker |-> <<NumberToString(longitude), NumberToString(latitude)>>]

\* lines 239-284: the document of getMapHTML() for the location loc, by
\* the parts that depend on it: the arguments of setView (line 265) and of
\* L.marker (line 271)
GetMapHTML(loc) ==
    IF loc = 0 THEN [empty |-> TRUE]
    ELSE LET latitude == Coords(loc).latitude
             longitude == Coords(loc).longitude
         IN [empty |-> FALSE,
             setView |-> <<NumberToString(latitude), NumberToString(longitude)>>,
             zoom |-> 15,
             marker |-> <<NumberToString(latitude), NumberToString(longitude)>>]

\* the return of line 159 missing: a denial goes on to the position fetch
PermissionResolved_NoReturn(r) ==
    /\ loadPc = "perm"
    /\ CASE r = "granted" ->
              /\ loadPc' = "fetch"
              /\ UNCHANGED <<loading, errorMsg>>
         [] r = "denied" ->
              /\ errorMsg' = Set(errorMsg, "permission")
              /\ loading' = Set(loading, FALSE)
              /\ loadPc' = "fetch"
         [] OTHER ->
              /\ loadPc' = "idle"
              /\ UNCHANGED <<loading, errorMsg>>
    /\ MonitorIdle
    /\ Emit("none")
    /\ UNCHANGED <<location, mapError, screenOn, connVars, trackVars, envVars>>

\* lines 155-160: requestForegroundPermissionsAsync() settled.  A rejection
\* is outside the try: the async function ends there.
PermissionResolved(r) ==
    /\ loadPc = "perm"
    /\ CASE r = "granted" ->
              /\ loadPc' = "fetch"
              /\ UNCHANGED <<loading, errorMsg>>
         [] r = "denied" ->
              /\ errorMsg' = Set(errorMsg, "permission")
              /\ loading' = Set(loading, FALSE)
              /\ loadPc' = "idle"
         [] OTHER ->
              /\ loadPc' = "idle"
              /\ UNCHANGED <<loading, errorMsg>>
    /\ MonitorIdle
    /\ Emit("none")
    /\ UNCHANGED <<location, mapError, screenOn, connVars, trackVars, envVars>>

\* lines 162-175: getCurrentPositionAsync() of the initial load settled
InitialFetchResolved(ok, pos) ==
    /\ loadPc = "fetch"
    /\ loadPc' = "idle"
    /\ loading' = Set(loading, FALSE)
    /\ IF ok
         THEN /\ location' = Set(location, pos)
              /\ UNCHANGED errorMsg
              /\ IF screenOn THEN MountMonitor ELSE MonitorIdle
              /\ Emit("none")
         ELSE /\ errorMsg' = Set(errorMsg, "fetch")
              /\ UNCHANGED location
              /\ MonitorIdle
              /\ Emit("error")
    /\ UNCHANGED <<mapError, screenOn, connVars, trackVars, envVars>>

\* lines 178-185, from the button of line 368: setLoading(true) renders the
\* loading view, which unmounts InternetConnectionCheck
RefreshLocation ==
    /\ ButtonsShown
    /\ loadPc = "idle"
    /\ nextId <= MaxChecks
    /\ loading' = TRUE
    /\ mapError' = FALSE
    /\ loadPc' = "refresh"
    /\ UnmountMonitor
    /\ Emit("none")
    /\ UNCHANGED <<errorMsg, location, screenOn, connVars, trackVars, envVars>>

\* the catch of lines 188-190 dropping the position: setLocation(null)
RefreshResolved_ClearsLocation(ok, pos) ==
    /\ loadPc = "refresh"
    /\ loadPc' = "idle"
    /\ loading' = Set(loading, FALSE)
    /\ location' = IF ok THEN Set(location, pos) ELSE Set(location, 0)
    /\ IF screenOn THEN MountMonitor ELSE MonitorIdle
    /\ Emit(IF ok THEN "none" ELSE "refreshError")
    /\ UNCHANGED <<errorMsg, mapError, screenOn, connVars, trackVars, envVars>>

\* lines 187-193: the refresh's getCurrentPositionAsync() settled;
\* setLoading(false) renders the main view with a new InternetConnectionCheck
RefreshResolved(ok, pos) ==
    /\ loadPc = "refresh"
    /\ loadPc' = "idle"
    /\ loading' = Set(loading, FALSE)
    /\ location' = IF ok THEN Set(location, pos) ELSE location
    /\ IF screenOn THEN MountMonitor ELSE MonitorIdle
    /\ Emit(IF ok THEN "none" ELSE "refreshError")
    /\ UNCHANGED <<errorMsg, mapError, screenOn, connVars, trackVars, envVars>>

\* lines 287-289: the WebView of lines 343-352 reports an error
HandleWebViewError ==
    /\ ButtonsShown
    /\ isConnected = Connected
    /\ ~mapError
    /\ mapError' = TRUE
    /\ MonitorIdle
    /\ Emit("none")
    /\ UNCHANGED <<loading, errorMsg, location, loadPc, screenOn, connVars,
                   trackVars, envVars>>

\* ------------------------------------- LocationApp: connectivity effect

\* lines 117-128: checkInternetConnection after its await of NetInfo.fetch():
\* setIsConnected(state), and the alert when the interface is inactive
CheckInternetConnection ==
    /\ connFetches > 0
    /\ connFetches' = connFetches - 1
    /\ isConnected' = Set(isConnected, FromBool(net))
    /\ Emit(IF ~net THEN "noConnection" ELSE "none")
    /\ MonitorIdle
    /\ UNCHANGED <<ctrlVars, effConn, effWatch, trackVars, envVars>>

\* lines 136-141: the alert of the listener, by the state it is called with
\* and the isConnected of its closure (null and false are both falsy)
ListenerAlert(state, captured) ==
    IF state /\ captured # Connected THEN "restored"
    ELSE IF ~state /\ captured = Connected THEN "lost"
    ELSE "none"

\* lines 133-142: the listener subscribed by the last run of the effect
ConnectivityListener ==
    /\ screenOn
    /\ isConnected' = FromBool(net)
    /\ Emit(ListenerAlert(net, effConn))
    /\ mapError' = IF ListenerAlert(net, effConn) = "restored"
                     THEN FALSE ELSE mapError
    /\ MonitorIdle
    /\ UNCHANGED <<loading, errorMsg, location, loadPc, screenOn, effConn,
                   effWatch, connFetches, trackVars, envVars>>

\* lines 116-151: isConnected or watchId differs from the last run's: the
\* cleanup of that run (unsubscribe, remove the watchId of its closure),
\* then the effect again: checkInternetConnection() and a new listener
ConnectivityEffect ==
    /\ screenOn
    /\ isConnected # effConn \/ watchId # effWatch
    /\ connFetches < MaxFetch
    /\ subs' = subs \ {effWatch}
    /\ effConn' = isConnected
    /\ effWatch' = watchId
    /\ connFetches' = connFetches + 1
    /\ Emit("none")
    /\ MonitorIdle
    /\ UNCHANGED <<ctrlVars, isConnected, trackingActive, watchId, starts,
                   nextSub, envVars>>

\* ---------------------------------------------- LocationApp: tracking

PendingStarts == {k \in StartSlots : starts[k].pc # "idle"}

\* lines 196-198, from the button of lines 380-385 (rendered while
\* trackingActive is false): the call, suspended at
\* getForegroundPermissionsAsync(), with the watchId of its closure
StartLocationTracking ==
    /\ ButtonsShown
    /\ ~trackingActive
    /\ PendingStarts # StartSlots
    /\ nextSub + Cardinality(PendingStarts) <= MaxSubs
    /\ LET k == CHOOSE i \in StartSlots \ PendingStarts :
                    \A j \in StartSlots \ PendingStarts : i <= j
       IN starts' = [starts EXCEPT ![k] = [pc |-> "perm", cap |-> watchId]]
    /\ Emit("none")
    /\ MonitorIdle
    /\ UNCHANGED <<ctrlVars, connVars, trackingActive, watchId, subs, nextSub,
                   envVars>>

\* lines 198-209: the permission query settled: not granted, the alert and
\* the return; rejected, the catch; granted, the watchId of the closure is
\* removed and watchPositionAsync() awaited
StartPermission(k, r) ==
    /\ starts[k].pc = "perm"
    /\ CASE r = "granted" ->
              /\ subs' = subs \ {starts[k].cap}
              /\ starts' = [starts EXCEPT ![k].pc = "watch"]
              /\ Emit("none")
         [] r = "denied" ->
              /\ starts' = [starts EXCEPT ![k] = IdleStart]
              /\ Emit("permissionDenied")
              /\ UNCHANGED subs
         [] OTHER ->
              /\ starts' = [starts EXCEPT ![k] = IdleStart]
              /\ Emit("trackingError")
              /\ UNCHANGED subs
    /\ MonitorIdle
    /\ UNCHANGED <<ctrlVars, connVars, trackingActive, watchId, nextSub, envVars>>

\* lines 209-226: watchPositionAsync() settled: the subscription is stored
\* and tracking flagged active, or the catch
StartWatch(k, ok) ==
    /\ starts[k].pc = "watch"
    /\ starts' = [starts EXCEPT ![k] = IdleStart]
    /\ IF ok
         THEN /\ subs' = subs \cup {nextSub}
              /\ nextSub' = nextSub + 1
              /\ watchId' = Set(watchId, nextSub)
              /\ trackingActive' = Set(trackingActive, TRUE)
              /\ Emit("trackingOn")
         ELSE /\ Emit("trackingError")
              /\ UNCHANGED <<subs, nextSub, watchId, trackingActive>>
    /\ MonitorIdle
    /\ UNCHANGED <<ctrlVars, connVars, envVars>>

\* the guard of line 230 missing: remove, the setters and the alert on
\* every call
StopOutcome_Unguarded(w, t, s) ==
    [watchId |-> 0, trackingActive |-> FALSE, subs |-> s \ {w},
     alert |-> "trackingOff"]

\* lines 229-236: what stopLocationTracking() does with watchId w,
\* trackingActive t and the live subscriptions s
StopOutcome(w, t, s) ==
    IF w # 0
      THEN [watchId |-> 0, trackingActive |-> FALSE, subs |-> s \ {w},
            alert |-> "trackingOff"]
      ELSE [watchId |-> w, trackingActive |-> t, subs |-> s, alert |-> "none"]

\* lines 229-236: one call of stopLocationTracking() on the mounted screen
StopBody ==
    /\ LET r == StopOutcome(watchId, trackingActive, subs)
       IN /\ subs' = r.subs
          /\ watchId' = r.watchId
          /\ trackingActive' = r.trackingActive
          /\ EmitStop(r.alert)
    /\ MonitorIdle
    /\ UNCHANGED <<ctrlVars, connVars, starts, nextSub, envVars>>

\* lines 229-236, from the button of lines 373-378 (rendered while
\* trackingActive)
StopLocationTracking ==
    /\ ButtonsShown
    /\ trackingActive
    /\ StopBody

\* stopLocationTracking() called whatever the screen renders: the function
\* by its contract, without the button that gates it
StopCall ==
    /\ screenOn
    /\ StopBody

\* lines 215-217: a live subscription delivers a position
PositionUpdate(sub, pos) ==
    /\ sub \in subs
    /\ location' = Set(location, pos)
    /\ Emit("none")
    /\ MonitorIdle
    /\ UNCHANGED <<loading, errorMsg, mapError, loadPc, screenOn, connVars,
                   trackVars, envVars>>

\* lines 144-150 at the unmount of LocationApp: an effect run still due
\* is flushed first (its cleanup, checkInternetConnection(), the listener),
\* then the last run's cleanup: unsubscribe, remove the watchId of its
\* closure; InternetConnectionCheck is unmounted with its parent
ScreenUnmount ==
    /\ screenOn
    /\ screenOn' = FALSE
    /\ LET due == isConnected # effConn \/ watchId # effWatch
       IN /\ due => connFetches < MaxFetch
          /\ connFetches' = IF due THEN connFetches + 1 ELSE connFetches
    /\ subs' = subs \ {effWatch, watchId}
    /\ effConn' = isConnected
    /\ effWatch' = watchId
    /\ IF monMounted THEN UnmountMonitor ELSE MonitorIdle
    /\ Emit("none")
    /\ UNCHANGED <<loading, errorMsg, location, mapError, loadPc, isConnected,
                   trackingActive, watchId, starts, nextSub, envVars>>

\* ------------------------------------------------------- environment

\* the interface goes up or down
NetChange ==
    /\ net' = ~net
    /\ MonitorIdle
    /\ Emit("none")
    /\ UNCHANGED <<ctrlVars, connVars, trackVars, now>>

\* time passes
Tick ==
    /\ now < MaxTime
    /\ now' = now + 1
    /\ MonitorIdle
    /\ UNCHANGED <<ctrlVars, scrVars, net>>

\* ------------------------------------------------------ specification

\* LocationApp after its first render and effects (lines 104-110, 116-176):
\* checkInternetConnection() and the permission request are suspended, the
\* listener is subscribed; no InternetConnectionCheck is mounted yet
Init ==
    /\ loading = TRUE
    /\ errorMsg = "none"
    /\ location = 0
    /\ mapError = FALSE
    /\ loadPc = "perm"
    /\ screenOn = TRUE
    /\ isConnected = Unknown
    /\ trackingActive = FALSE
    /\ watchId = 0
    /\ effConn = Unknown
    /\ effWatch = 0
    /\ connFetches = 1
    /\ starts = [k \in StartSlots |-> IdleStart]
    /\ subs = {}
    /\ nextSub = 1
    /\ sLast = [alert |-> "none", prevConn |-> Unknown, stop |-> FALSE]
    /\ inst = 0
    /\ monMounted = FALSE
    /\ mIsConnected = Unknown
    /\ mIsChecking = FALSE
    /\ mLastChecked = NoDate
    /\ intervalOn = FALSE
    /\ listenerOn = FALSE
    /\ checks = [i \in CheckIds |-> IdleCheck]
    /\ timers = {}
    /\ nextId = 1
    /\ net \in BOOLEAN
    /\ now = 1
    /\ mLast = NoStep
    /\ authStamp = 0
    /\ authVal = Unknown

\* the initial load and the refresh, which mount and unmount the monitor
LoadNext ==
    \/ \E r \in {"granted", "denied", "error"} : PermissionResolved(r)
    \/ \E ok \in BOOLEAN, pos \in Positions : InitialFetchResolved(ok, pos)
    \/ RefreshLocation
    \/ \E ok \in BOOLEAN, pos \in Positions : RefreshResolved(ok, pos)

\* InternetConnectionCheck under the screen's loading and refreshing
Next ==
    \/ LoadNext
    \/ TimerCheck
    \/ ManualCheck
    \/ NetInfoEvent
    \/ \E id \in CheckIds : CheckNetInfo(id)
    \/ \E id \in CheckIds, o \in ProbeOutcomes : CheckProbe(id, o)
    \/ \E id \in CheckIds : AbortTimer(id)
    \/ NetChange
    \/ Tick

Spec == Init /\ [][Next]_vars

\* NetInfo.fetch() resolves (line 28) and the timer of line 41 fires
Fairness ==
    \A id \in CheckIds : WF_vars(CheckNetInfo(id)) /\ WF_vars(AbortTimer(id))

LiveSpec == Spec /\ Fairness

\* LocationApp: loading, the connectivity effect and tracking
ScreenNext ==
    \/ LoadNext
    \/ HandleWebViewError
    \/ CheckInternetConnection
    \/ ConnectivityListener
    \/ ConnectivityEffect
    \/ StartLocationTracking
    \/ \E k \in StartSlots, r \in {"granted", "denied", "error"} : StartPermission(k, r)
    \/ \E k \in StartSlots, ok \in BOOLEAN : StartWatch(k, ok)
    \/ StopLocationTracking
    \/ \E sub \in 1..MaxSubs, pos \in Positions : PositionUpdate(sub, pos)
    \/ ScreenUnmount
    \/ NetChange

ScreenSpec == Init /\ [][ScreenNext]_vars

\* LocationApp with stopLocationTracking() callable in every state
StopNext ==
    \/ ScreenNext
    \/ StopCall

StopSpec == Init /\ [][StopNext]_vars

\* ------------------------------------------------- Connectivity Monitor

\* the checks of the mounted instance that have started, and those done
StartedChecks == {id \in CheckIds : checks[id].pc # "idle" /\ checks[id].inst = inst}
DoneChecks == {id \in StartedChecks : checks[id].pc = "done"}

\* C1: only the most recently started check's (or listener call's) result is
\* authoritative: the status of a mounted monitor is the one written by the
\* newest-started writer among those that have written; a check that
\* resolves after a newer one wrote does not alter it.
C1_NewestCheckAuthoritative ==
    (monMounted /\ authStamp > 0) => mIsConnected = authVal

\* C2: whenever an inactive interface is reported, by the query of a check
\* or by the listener's event, no probe is issued for that report (the
\* check is over and no abort timer was armed for it) and the status is
\* Disconnected in the same step.
C2_InactiveSkipsProbe ==
    mLast.report = "inactive" =>
        /\ mLast.kind \in {"inactiveQuery", "inactiveEvent"}
        /\ "status" \in mLast.wrote
        /\ mLast.setTo = Disconnected
        /\ mLast.live => mIsConnected = Disconnected
        /\ mLast.kind = "inactiveQuery" =>
              checks[mLast.id].pc = "done" /\ mLast.id \notin timers

C2_Witness ==
    /\ mLast.kind = "inactiveQuery"
    /\ mLast.report = "inactive"
    /\ mLast.live
    /\ mIsConnected = Disconnected
    /\ \E id \in DoneChecks : id < mLast.id

C7_NoResourceOutlives ==
    /\ ~monMounted => (~intervalOn /\ ~listenerOn)
    /\ \A id \in timers :
          /\ checks[id].pc = "probe"
          /\ IsLive(id)
          /\ \A j \in StartedChecks : j <= id

\* C8: a check whose query reported an active interface sets Connected
\* exactly when the probe returned a successful response; a timeout, a
\* network error and a non-success response all set Disconnected, and the
\* status has no further value.
C8_ProbeDecidesStatus ==
    /\ mIsConnected \in ConnectivityStatus
    /\ mLast.kind = "probeDone" =>
          /\ "status" \in mLast.wrote
          /\ mLast.setTo = (IF mLast.outcome = "ok" THEN Connected ELSE Disconnected)
          /\ mLast.live => mIsConnected = mLast.setTo
          /\ checks[mLast.id].pc = "done"

C8_Witness ==
    /\ mLast.kind = "probeDone"
    /\ mLast.outcome = "timeout"
    /\ mLast.live
    /\ mIsConnected = Disconnected
    /\ \E id \in DoneChecks : id < mLast.id

\* C9: within one monitor instance the status never returns to Unknown:
\* no step of an instance whose status is Connected or Disconnected leaves
\* it Unknown.
C9_UnknownNotReentered ==
    [][(inst' = inst /\ mIsConnected # Unknown) => mIsConnected' # Unknown]_vars

C9_Witness ==
    /\ monMounted
    /\ mIsConnected # Unknown
    /\ mLast.kind = "probeDone"
    /\ mLast.outcome = "neterror"
    /\ mLast.live
    /\ Cardinality(DoneChecks) >= 2

\* C10: status and timestamp are written together: a step calls
\* setIsConnected exactly when it calls setLastChecked, the written
\* timestamp is the current time, and the two leave their initial null
\* together.
C10_StatusAndStampTogether ==
    /\ ("status" \in mLast.wrote) <=> ("stamp" \in mLast.wrote)
    /\ (mLast.live /\ "stamp" \in mLast.wrote) =>
          (mLastChecked = now /\ mIsConnected = mLast.setTo)
    /\ (mIsConnected = Unknown) <=> (mLastChecked = NoDate)

C10_Witness ==
    /\ mLast.kind = "inactiveEvent"
    /\ mLastChecked = now
    /\ now > 1
    /\ mIsConnected = Disconnected

\* ------------------------------------------------ screen-level controller

\* C3: a connectivity alert is emitted only by a step that changes the
\* controller's connectivity status, never by an observation confirming the
\* status already held.
C3_AlertOnlyOnChange ==
    sLast.alert \in ConnAlerts => sLast.prevConn # isConnected

\* C4: every step that takes the controller's status from Unknown to
\* Connected, from Connected to Disconnected or from Disconnected to
\* Connected emits a connectivity alert.
C4_EveryTransitionAlerts ==
    <<sLast.prevConn, isConnected>> \in
        {<<Unknown, Connected>>, <<Connected, Disconnected>>,
         <<Disconnected, Connected>>}
    => sLast.alert \in ConnAlerts

\* C5: at most one tracking subscription is live, and when a start
\* completes the one it stored is the only one live.
C5_AtMostOneSubscription ==
    /\ Cardinality(subs) <= 1
    /\ sLast.alert = "trackingOn" => subs = {watchId}

\* C11: once the initial permission request has returned a status other
\* than granted, loading has ended and the error state is held, and in no
\* later state is a position fetch in progress or done, a tracking
\* subscription requested or created, or the map rendered.
C11_DeniedBlocksEverything ==
    errorMsg = "permission" =>
        /\ ~loading
        /\ loadPc = "idle"
        /\ location = 0
        /\ PendingStarts = {}
        /\ nextSub = 1
        /\ subs = {}
        /\ ~trackingActive
        /\ ~ButtonsShown
        /\ ~MapRendered

C11_Witness ==
    /\ errorMsg = "permission"
    /\ isConnected = Connected
    /\ sLast.alert = "restored"

\* C12: a failed position fetch is not fatal: in every state after a failed
\* initial fetch, and in the state a failed refresh leaves, the refresh
\* button is rendered and no fetch is in progress (the fetch is re-invoked
\* by that button only).
C12_RefreshAvailableAfterFailure ==
    (screenOn /\ (errorMsg = "fetch" \/ sLast.alert = "refreshError")) =>
        (ButtonsShown /\ loadPc = "idle")

\* C13: once the screen is torn down no tracking subscription it created
\* is live, one whose creation was pending at teardown included.
C13_NoSubscriptionAfterTeardown ==
    ~screenOn => subs = {}

\* C14: stopping is idempotent: a stopLocationTracking() call made while no
\* subscription is held changes no state of the screen and shows no alert,
\* every call leaves no subscription held, and a second call right after a
\* first leaves the state the first left and shows nothing.
C14_StopIdempotent ==
    [][sLast'.stop =>
          /\ watchId' = 0
          /\ watchId = 0 =>
                /\ sLast'.alert = "none"
                /\ UNCHANGED <<ctrlVars, connVars, trackVars>>
          /\ LET once == StopOutcome(watchId, trackingActive, subs)
                 twice == StopOutcome(once.watchId, once.trackingActive, once.subs)
             IN twice = [once EXCEPT !.alert = "none"]]_vars

\* stop was called with nothing held, after a subscription had been
\* started and stopped
C14_Witness ==
    /\ sLast.stop
    /\ sLast.alert = "none"
    /\ nextSub > 1
    /\ watchId = 0

\* C15: in every state in which the map is rendered, the document given to
\* the WebView places its one marker, and centres its view, at the
\* latitude and longitude of the position the controller holds.
C15_MarkerAtHeldPosition ==
    MapRendered =>
        LET doc == GetMapHTML(location)
        IN /\ ~doc.empty
           /\ ParseNumber(doc.marker[1]) = Coords(location).latitude
           /\ ParseNumber(doc.marker[2]) = Coords(location).longitude
           /\ doc.setView = doc.marker

\* the map is rendered while tracking updates the position
C15_Witness ==
    /\ MapRendered
    /\ trackingActive
    /\ location = MaxPos
    /\ sLast.alert = "none"

\* C16: a monitor that is mounted has begun a check at once; every check
\* that is started completes if the interface query returns and the abort
\* timer fires; a completing check of the mounted monitor writes Connected
\* or Disconnected; and the status of a mounted monitor leaves Unknown.
C16_ChecksComplete ==
    /\ [](mLast.kind = "mount" =>
             /\ checks[mLast.id] = [pc |-> "netinfo", inst |-> inst]
             /\ mIsChecking)
    /\ [](mLast.kind \in {"inactiveQuery", "probeDone"} /\ mLast.live =>
             /\ "status" \in mLast.wrote
             /\ mIsConnected \in {Connected, Disconnected})
    /\ \A id \in CheckIds :
          checks[id].pc \in {"netinfo", "probe"} ~> checks[id].pc = "done"
    /\ (monMounted /\ mIsConnected = Unknown)
          ~> (~monMounted \/ mIsConnected # Unknown)

\* a check of the mounted monitor was completed by the abort timer
C16_Witness ==
    /\ mLast.kind = "probeDone"
    /\ mLast.outcome = "timeout"
    /\ mLast.live
    /\ mIsConnected = Disconnected

\* C17: the isChecking flag of the mounted monitor is true exactly when at
\* least one of its checks is in flight, under overlapping timer, event
\* and manual checks.
C17_CheckingIffInFlight ==
    monMounted =>
        (mIsChecking <=>
            \E id \in CheckIds :
                IsLive(id) /\ checks[id].pc \in {"netinfo", "probe"})

\* C18: whenever trackingActive is true the subscription held in watchId
\* is live; a connectivity change while tracking does not remove it.
C18_ActiveSubscriptionLive ==
    (screenOn /\ trackingActive) => watchId \in subs

\* C19: loading always ends: once every platform call of the initial load
\* or of a refresh has settled, whatever its outcome, loading is false.
C19_LoadingEnds ==
    (screenOn /\ loadPc = "idle") => ~loading

\* C20: a failed refresh changes only the loading and map-error flags: the
\* step that starts a refresh and the step in which its fetch fails leave
\* the position, the error state, the connectivity status, the tracking
\* flag and the subscriptions as they were, and the failure ends loading
\* with the main view and the prior position shown again.
C20_FailedRefreshFrame ==
    [][(\/ loadPc = "idle" /\ loadPc' = "refresh"
        \/ loadPc = "refresh" /\ loadPc' = "idle" /\ sLast'.alert = "refreshError")
       => /\ UNCHANGED <<errorMsg, location, screenOn, connVars, trackVars>>
          /\ (loadPc' = "idle" /\ screenOn) =>
                (~loading' /\ errorMsg' = "none" /\ location' # 0)]_vars

\* a refresh has just failed while tracking is active
C20_Witness ==
    /\ sLast.alert = "refreshError"
    /\ ButtonsShown
    /\ trackingActive
    /\ watchId \in subs
    /\ location = MaxPos

\* C21: a refresh of the position leaves the Connectivity Monitor
\* untouched: the step that starts refreshLocation() and the step in which
\* it completes keep the monitor's instance mounted, and its status and
\* last-checked timestamp as they were.
C21_RefreshLeavesMonitor ==
    [][(\/ loadPc = "idle" /\ loadPc' = "refresh"
        \/ loadPc = "refresh" /\ loadPc' = "idle")
       => UNCHANGED <<inst, monMounted, mIsConnected, mLastChecked>>]_vars

====
